---- MODULE Spec2Model ----
(***************************************************************************)
(* A model of the thumbnail generator service (src/main.py): the headline  *)
(* text functions (clean_title, wrap_text), the composition pipeline of    *)
(* ThumbnailGenerator.generate_thumbnail, and the handlers that create,    *)
(* read and sweep the PNG files of the output folder.                      *)
(*                                                                         *)
(* A Python str is modelled as a sequence of one-character strings.        *)
(***************************************************************************)
EXTENDS Integers, Sequences, FiniteSets, TLC

VARIABLES
    text,        \* argument of the text function under call (a str)
    max_width,   \* argument max_width of wrap_text
    fn,          \* which text function has been called: "none" before the call
    out,         \* the value the call returned
    job,         \* a call of ThumbnailGenerator.generate_thumbnail: request and assets
    picked,      \* the random choices the call drew
    made,        \* what the call composed, or the error it raised
    now,         \* the clock
    disk,        \* the files of the output folder
    gen,         \* the handlers of POST /generate-thumbnail, one for each request
    rd,          \* the handlers of GET /thumbnail/{filename}
    sw,          \* the run of cleanup_expired_files under way
    pending,     \* the cleanups scheduled as background tasks, not yet run
    periodic     \* the task periodic_cleanup: "alive" or "dead"

textVars == <<text, max_width, fn, out>>
composeVars == <<job, picked, made>>

sysVars == <<now, disk, gen, rd, sw, pending, periodic>>

vars == <<text, max_width, fn, out, job, picked, made,
          now, disk, gen, rd, sw, pending, periodic>>

-----------------------------------------------------------------------------
(* Bounds of the model.                                                    *)

\* Number of fragments a text given to wrap_text is made of.
MaxParts == 5

\* Number of fragments a headline given to clean_title is made of.
MaxCleanParts == 3

\* A max_width no input of the model reaches: "ample width".
AmpleWidth == 40

\* Number of generation requests.
MaxGen == 2

\* Number of read requests under way at a time.
MaxReaders == 2

\* The clock stops at this time.
MaxTime == 4

-----------------------------------------------------------------------------
(* Python str helpers.                                                     *)

Min(S) == CHOOSE m \in S : \A k \in S : m <= k

\* str.isspace for one character: the whitespace of the model's alphabet.
IsSpace(c) == c \in {" ", "\t"}

\* s[i:] from the (1-based) position i on.
From(s, i) == SubSeq(s, i, Len(s))

\* s.startswith(pat, i-1): pat occurs in s at position i.
MatchAt(s, pat, i) ==
    /\ i >= 1
    /\ i + Len(pat) - 1 <= Len(s)
    /\ SubSeq(s, i, i + Len(pat) - 1) = pat

\* s.find(pat) + 1: the position of the leftmost occurrence, 0 for none.
Find(s, pat) ==
    LET hits == {i \in 1..Len(s) : MatchAt(s, pat, i)}
    IN  IF hits = {} THEN 0 ELSE Min(hits)

\* pat in s
Contains(s, pat) == Find(s, pat) # 0

\* s.lstrip()
LStrip(s) ==
    LET n == Len(s)
        k == Min({i \in 1..(n + 1) :
                    i = n + 1 \/ ~IsSpace(s[i])})
    IN  SubSeq(s, k, n)

\* s.rstrip()
RStrip(s) ==
    LET n == Len(s)
        ends == {j \in 0..n : j = 0 \/ ~IsSpace(s[j])}
        k == CHOOSE j \in ends : \A e \in ends : e <= j
    IN  SubSeq(s, 1, k)

\* s.strip()
Strip(s) == LStrip(RStrip(s))

\* s.replace(old, new): the leftmost occurrences, not overlapping, in one pass.
RECURSIVE Replace(_, _, _)
Replace(s, old, new) ==
    LET i == Find(s, old)
    IN  IF i = 0
        THEN s
        ELSE SubSeq(s, 1, i - 1) \o new \o Replace(From(s, i + Len(old)), old, new)

\* s.split(sep): the parts between the leftmost occurrences of sep.
RECURSIVE Split(_, _)
Split(s, sep) ==
    LET i == Find(s, sep)
    IN  IF i = 0
        THEN <<s>>
        ELSE <<SubSeq(s, 1, i - 1)>> \o Split(From(s, i + Len(sep)), sep)

\* s.split(): the maximal runs of non-whitespace characters.
RECURSIVE SplitWords(_)
SplitWords(s) ==
    LET t == LStrip(s)
        n == Len(t)
        e == Min({j \in 1..(n + 1) : j = n + 1 \/ IsSpace(t[j])})
    IN  IF t = <<>>
        THEN <<>>
        ELSE <<SubSeq(t, 1, e - 1)>> \o SplitWords(From(t, e))

LowerCase == <<"a", "b", "c", "d", "e", "f", "g", "h", "i", "j", "k", "l", "m",
               "n", "o", "p", "q", "r", "s", "t", "u", "v", "w", "x", "y", "z">>
UpperCase == <<"A", "B", "C", "D", "E", "F", "G", "H", "I", "J", "K", "L", "M",
               "N", "O", "P", "Q", "R", "S", "T", "U", "V", "W", "X", "Y", "Z">>

IsLower(c) == \E k \in 1..Len(LowerCase) : LowerCase[k] = c
IsUpper(c) == \E k \in 1..Len(UpperCase) : UpperCase[k] = c
IsAlpha(c) == IsLower(c) \/ IsUpper(c)
ToUpper(c) ==
    IF IsLower(c) THEN UpperCase[CHOOSE k \in 1..Len(LowerCase) : LowerCase[k] = c] ELSE c
ToLower(c) ==
    IF IsUpper(c) THEN LowerCase[CHOOSE k \in 1..Len(UpperCase) : UpperCase[k] = c] ELSE c

\* s.title(): a letter after a non-letter in upper case, every other letter in lower.
Title(s) ==
    [i \in 1..Len(s) |->
        IF i = 1 \/ ~IsAlpha(s[i - 1]) THEN ToUpper(s[i]) ELSE ToLower(s[i])]

\* s.upper()
Upper(s) == [i \in 1..Len(s) |-> ToUpper(s[i])]

-----------------------------------------------------------------------------
(* The literals of clean_title and wrap_text.                              *)

Intimation == <<"-", " ", "I", "n", "t", "i", "m", "a", "t", "i", "o", "n">>
ListingObligations ==
    <<"L", "i", "s", "t", "i", "n", "g", " ",
      "O", "b", "l", "i", "g", "a", "t", "i", "o", "n", "s">>
ImportantUpdate ==
    <<"I", "m", "p", "o", "r", "t", "a", "n", "t", " ", "U", "p", "d", "a", "t", "e">>
Delimiter == <<" ", "-", " ">>

-----------------------------------------------------------------------------
(* ThumbnailGenerator.clean_title                                          *)

\* clean_title with the early return dropped, so that its last line is reached.
clean_title_titlecased(prompt) ==
    LET t == Strip(Replace(prompt, Intimation, <<>>))
    IN  IF Contains(t, ListingObligations) THEN ImportantUpdate ELSE Title(t)

clean_title(prompt) ==
    LET t == Strip(Replace(prompt, Intimation, <<>>))
    IN  IF Contains(t, ListingObligations) THEN ImportantUpdate ELSE Strip(t)

-----------------------------------------------------------------------------
(* ThumbnailGenerator.wrap_text                                            *)

\* draw.textbbox((0, 0), line, font=font)[2]: the rendered width of a line, the
\* sum of its characters' advance widths.
CharWidth(c) == IF IsSpace(c) THEN 1 ELSE 2

RECURSIVE TextWidth(_)
TextWidth(s) == IF s = <<>> THEN 0 ELSE CharWidth(Head(s)) + TextWidth(Tail(s))

\* The loop over the words with "<" for "<=": a line that fits exactly is broken.
RECURSIVE WrapWords_strict(_, _, _, _)
WrapWords_strict(words, current_line, lines, width) ==
    IF words = <<>>
    THEN IF current_line # <<>> THEN Append(lines, current_line) ELSE lines
    ELSE LET word == Head(words)
             test_line == IF current_line # <<>>
                          THEN current_line \o <<" ">> \o word
                          ELSE word
         IN  IF TextWidth(test_line) < width
             THEN WrapWords_strict(Tail(words), test_line, lines, width)
             ELSE WrapWords_strict(Tail(words), word,
                                   IF current_line # <<>>
                                   THEN Append(lines, current_line)
                                   ELSE lines,
                                   width)

\* The loop over the words without the test "if current_line:" before
\* lines.append(current_line): the line is appended even when it is empty.
RECURSIVE WrapWords_unguarded(_, _, _, _)
WrapWords_unguarded(words, current_line, lines, width) ==
    IF words = <<>>
    THEN IF current_line # <<>> THEN Append(lines, current_line) ELSE lines
    ELSE LET word == Head(words)
             test_line == IF current_line # <<>>
                          THEN current_line \o <<" ">> \o word
                          ELSE word
         IN  IF TextWidth(test_line) <= width
             THEN WrapWords_unguarded(Tail(words), test_line, lines, width)
             ELSE WrapWords_unguarded(Tail(words), word, Append(lines, current_line),
                                      width)

\* The loop over the words: current_line accumulates words while the line fits.
RECURSIVE WrapWords(_, _, _, _)
WrapWords(words, current_line, lines, width) ==
    IF words = <<>>
    THEN IF current_line # <<>> THEN Append(lines, current_line) ELSE lines
    ELSE LET word == Head(words)
             test_line == IF current_line # <<>>
                          THEN current_line \o <<" ">> \o word
                          ELSE word
         IN  IF TextWidth(test_line) <= width
             THEN WrapWords(Tail(words), test_line, lines, width)
             ELSE WrapWords(Tail(words), word,
                            IF current_line # <<>> THEN Append(lines, current_line)
                                                   ELSE lines,
                            width)

\* The loop over the parts of a text with manual line breaks.
RECURSIVE WrapParts(_, _, _)
WrapParts(parts, lines, width) ==
    IF parts = <<>>
    THEN lines
    ELSE LET part == Strip(Head(parts))
         IN  IF part = <<>>
             THEN WrapParts(Tail(parts), lines, width)
             ELSE IF TextWidth(part) <= width
             THEN WrapParts(Tail(parts), Append(lines, part), width)
             ELSE WrapParts(Tail(parts),
                            WrapWords(SplitWords(part), <<>>, lines, width), width)

\* wrap_text that keeps the parts as split, without part.strip().
wrap_text_unstripped(txt, width) ==
    IF Contains(txt, Delimiter)
    THEN SelectSeq(Split(txt, Delimiter), LAMBDA p : p # <<>>)
    ELSE WrapWords(SplitWords(txt), <<>>, <<>>, width)

wrap_text(txt, width) ==
    IF Contains(txt, Delimiter)
    THEN WrapParts(Split(txt, Delimiter), <<>>, width)
    ELSE WrapWords(SplitWords(txt), <<>>, <<>>, width)

-----------------------------------------------------------------------------
(* Config and DesignSystem.                                                *)

canvas_width == 1200
canvas_height == 675
file_expiry_hours == 3

GRADIENTS ==
    [modern |->
        [dark  |-> << <<<<15, 23, 42>>, <<30, 41, 59>>>>,
                      <<<<31, 41, 55>>, <<51, 65, 85>>>>,
                      <<<<17, 24, 39>>, <<31, 41, 55>>>>,
                      <<<<22, 30, 46>>, <<37, 50, 72>>>> >>,
         light |-> << <<<<248, 250, 252>>, <<241, 245, 249>>>>,
                      <<<<254, 252, 232>>, <<252, 211, 77>>>>,
                      <<<<236, 253, 245>>, <<167, 243, 208>>>>,
                      <<<<245, 243, 255>>, <<196, 181, 253>>>> >>],
     corporate |->
        [dark  |-> << <<<<30, 58, 138>>, <<29, 78, 216>>>>,
                      <<<<91, 33, 182>>, <<124, 58, 237>>>>,
                      <<<<6, 78, 59>>, <<5, 150, 105>>>>,
                      <<<<153, 27, 27>>, <<220, 38, 38>>>> >>,
         light |-> << <<<<255, 255, 255>>, <<249, 250, 251>>>>,
                      <<<<249, 250, 251>>, <<243, 244, 246>>>>,
                      <<<<240, 249, 255>>, <<219, 234, 254>>>>,
                      <<<<247, 254, 231>>, <<220, 252, 231>>>> >>],
     vibrant |->
        [dark  |-> << <<<<147, 51, 234>>, <<79, 70, 229>>>>,
                      <<<<236, 72, 153>>, <<147, 51, 234>>>>,
                      <<<<34, 197, 94>>, <<20, 184, 166>>>>,
                      <<<<251, 113, 133>>, <<244, 63, 94>>>> >>,
         light |-> << <<<<254, 240, 138>>, <<251, 191, 36>>>>,
                      <<<<165, 243, 252>>, <<34, 211, 238>>>>,
                      <<<<254, 205, 211>>, <<251, 113, 133>>>>,
                      <<<<196, 181, 253>>, <<139, 92, 246>>>> >>]]

TYPOGRAPHY ==
    [modern    |-> [title_size |-> 72, subtitle_size |-> 40, spacing |-> 15],
     corporate |-> [title_size |-> 68, subtitle_size |-> 38, spacing |-> 12],
     vibrant   |-> [title_size |-> 76, subtitle_size |-> 42, spacing |-> 18]]

\* The ratios are held in hundredths: 0.35 is 35.
LAYOUTS ==
    [modern    |-> [logo_area_ratio |-> 35, padding |-> 50, logo_max_ratio |-> 70],
     corporate |-> [logo_area_ratio |-> 30, padding |-> 40, logo_max_ratio |-> 60],
     vibrant   |-> [logo_area_ratio |-> 40, padding |-> 60, logo_max_ratio |-> 80]]

-----------------------------------------------------------------------------
(* FontManager.get_font_path and ImageFont.truetype.                       *)
(* A font environment is [exists, loads]: the font paths that exist, and   *)
(* the font paths (or names) ImageFont.truetype can load.                  *)

DEFAULT_FONTS ==
    [bold    |-> <<"Arial-Bold.ttf", "Helvetica-Bold.ttf", "DejaVuSans-Bold.ttf">>,
     regular |-> <<"Arial.ttf", "Helvetica.ttf", "DejaVuSans.ttf">>]

system_fonts ==
    <<"/System/Library/Fonts/Supplemental/Arial.ttf",
      "/usr/share/fonts/truetype/dejavu/DejaVuSans-Bold.ttf",
      "C:/Windows/Fonts/arial.ttf">>

\* f"{font_family}-{variant}.ttf" for the font families of the model.
CustomFontPath(font_family, variant) ==
    IF variant = "bold" THEN font_family \o "-bold.ttf" ELSE font_family \o "-regular.ttf"

\* The first element of a list of paths that is in the set good, "" when none is.
FirstOf(paths, good) ==
    LET hits == {k \in 1..Len(paths) : paths[k] \in good}
    IN  IF hits = {} THEN "" ELSE paths[Min(hits)]

get_font_path(fonts, font_family, variant) ==
    LET custom == IF font_family = "" THEN "" ELSE CustomFontPath(font_family, variant)
        bundled == FirstOf(DEFAULT_FONTS[variant], fonts.exists \cap fonts.loads)
        system == FirstOf(system_fonts, fonts.exists)
    IN  IF custom # "" /\ custom \in fonts.exists /\ custom \in fonts.loads THEN custom
        ELSE IF bundled # "" THEN bundled
        ELSE IF system # "" THEN system
        ELSE "arial.ttf"

-----------------------------------------------------------------------------
(* ThumbnailGenerator: colours and logo.                                   *)
(* The content of an image file is one of "dark", "light" (a raster image  *)
(* of that dominant colour), "transparent" (a raster image ColorThief      *)
(* finds no pixel in), "vector" (an SVG, which PIL does not read) and      *)
(* "corrupt"; "absent" is a file that does not exist.                      *)

\* Image.open(path) succeeds.
Decodes(content) == content \in {"dark", "light", "transparent"}

get_dominant_color(content) ==
    CASE content = "dark" -> <<20, 24, 40>>
      [] content = "light" -> <<240, 236, 220>>
      [] OTHER -> <<128, 128, 128>>

\* brightness < 127.5, in thousandths.
is_color_dark(rgb) == 299 * rgb[1] + 587 * rgb[2] + 114 * rgb[3] < 127500

\* The logo file names tried for a ticker, in order.
LogoNames == <<".NSE.png", ".png", ".jpg", ".jpeg", ".svg">>

\* generate_thumbnail without the validation of the style preset.
NormalizePreset_none(style_preset) == style_preset

\* if style_preset not in GRADIENTS: style_preset = "modern"
NormalizePreset(style_preset) ==
    IF style_preset \notin DOMAIN GRADIENTS THEN "modern" ELSE style_preset

\* ThumbnailGenerator.generate_thumbnail up to the drawing of the text: what it
\* composes for a request in an asset environment, with the two random choices
\* (the tone when there is no logo, the index of the colour pair).
\* env.logos, env.brand: file name -> content; env.fonts: the font environment.
Compose(request, env, random_dark, random_index) ==
    LET style_preset == NormalizePreset(request.style_preset)
        found == {k \in 1..Len(LogoNames) : env.logos[LogoNames[k]] # "absent"}
        logo_exists == found # {}
        logo == IF logo_exists THEN env.logos[LogoNames[Min(found)]] ELSE "absent"
        typography == TYPOGRAPHY[style_preset]
        layout == LAYOUTS[style_preset]
        dominant_color == get_dominant_color(logo)
        use_dark_bg == IF logo_exists THEN ~is_color_dark(dominant_color) ELSE random_dark
        gradient_type == IF use_dark_bg THEN "dark" ELSE "light"
        choices == GRADIENTS[style_preset][gradient_type]
        gradient_style == IF style_preset = "vibrant" THEN "radial" ELSE "linear"
        logo_area_width == (canvas_width * layout.logo_area_ratio) \div 100
        logo_max_size == (logo_area_width * layout.logo_max_ratio) \div 100
        padding == IF logo_exists THEN layout.padding ELSE layout.padding * 2
        text_area_x == IF logo_exists THEN logo_area_width + padding ELSE padding
        text_area_width == IF logo_exists THEN canvas_width - text_area_x - padding
                                          ELSE canvas_width - (padding * 2)
        brand_logo == env.brand[IF use_dark_bg THEN "INVESTYWISE_WHITE"
                                               ELSE "INVESTYWISE_BLACK"]
        font_bold_path == get_font_path(env.fonts, request.font_family, "bold")
        font_regular_path == get_font_path(env.fonts, request.font_family, "regular")
        headline == clean_title(request.prompt)
    IN  IF \E table \in {TYPOGRAPHY, LAYOUTS, GRADIENTS} : style_preset \notin DOMAIN table
            THEN [status |-> "error", error |-> "KeyError"]
        ELSE IF logo_exists /\ ~Decodes(logo)
            THEN [status |-> "error", error |-> "cannot identify image file (logo)"]
        ELSE IF brand_logo # "absent" /\ ~Decodes(brand_logo)
            THEN [status |-> "error", error |-> "cannot identify image file (brand)"]
        ELSE IF font_regular_path \notin env.fonts.loads
                    \/ font_bold_path \notin env.fonts.loads
            THEN [status |-> "error", error |-> "cannot open resource"]
        ELSE [status |-> "ok",
              style_preset |-> style_preset,
              logo_exists |-> logo_exists,
              typography |-> typography,
              layout |-> layout,
              use_dark_bg |-> use_dark_bg,
              colors |-> choices[random_index],
              gradient_style |-> gradient_style,
              add_border |-> logo_exists /\ style_preset = "corporate",
              brand_pasted |-> brand_logo # "absent",
              text_color |-> IF use_dark_bg THEN "#FFFFFF" ELSE "#1F2937",
              subtitle_color |-> IF use_dark_bg THEN "#D1D5DB" ELSE "#6B7280",
              text_area_x |-> text_area_x,
              text_area_width |-> text_area_width,
              fonts |-> <<font_bold_path, font_regular_path>>,
              line_height |-> typography.title_size + typography.spacing,
              lines |-> wrap_text(headline, text_area_width)]

-----------------------------------------------------------------------------
(* A call of ThumbnailGenerator.generate_thumbnail in an asset environment.*)

NoLogo == [n \in {LogoNames[k] : k \in 1..Len(LogoNames)} |-> "absent"]

\* The logo folder, for the ticker of the request.
LogoDirs ==
    {NoLogo}
    \cup {[NoLogo EXCEPT ![".NSE.png"] = c] : c \in {"dark", "light", "transparent", "corrupt"}}
    \cup {[NoLogo EXCEPT ![".svg"] = "vector"],
          [NoLogo EXCEPT ![".png"] = "light", ![".svg"] = "vector"]}

\* The brand logo folder.
BrandDirs ==
    {[INVESTYWISE_WHITE |-> w, INVESTYWISE_BLACK |-> b] :
        w \in {"absent", "light", "corrupt"}, b \in {"absent", "dark"}}

BoldAndRegular(name) == {CustomFontPath(name, "bold"), CustomFontPath(name, "regular")}

\* The fonts folder and the system fonts.
FontEnvs ==
    { [exists |-> {}, loads |-> {}],
      [exists |-> {}, loads |-> {"arial.ttf"}],
      [exists |-> BoldAndRegular("Inter"), loads |-> BoldAndRegular("Inter")],
      [exists |-> BoldAndRegular("Inter") \cup {"DejaVuSans-Bold.ttf", "DejaVuSans.ttf"},
       loads |-> {"DejaVuSans-Bold.ttf", "DejaVuSans.ttf"}],
      [exists |-> {"Arial-Bold.ttf", "Arial.ttf", "Helvetica-Bold.ttf", "Helvetica.ttf"},
       loads |-> {"Helvetica-Bold.ttf", "Helvetica.ttf"}],
      [exists |-> {system_fonts[2]}, loads |-> {system_fonts[2]}],
      [exists |-> {system_fonts[2]}, loads |-> {}] }

AssetEnvs == [logos : LogoDirs, brand : BrandDirs, fonts : FontEnvs]

BoardMeeting ==
    <<"B", "o", "a", "r", "d", " ", "M", "e", "e", "t", "i", "n", "g", " ">> \o Intimation

Prompts == {BoardMeeting, ListingObligations}

StylePresets == {"modern", "corporate", "vibrant", "retro", ""}

MethodRequests ==
    [prompt : Prompts, font_family : {"", "Inter"}, style_preset : StylePresets]

NotMade == [status |-> "none"]

-----------------------------------------------------------------------------
(* The parts of the state a specification does not use stay as they are.   *)

TextIdle == text = <<>> /\ max_width = 0 /\ fn = "none" /\ out = <<>>

ComposeIdle ==
    /\ job = [request |-> [prompt |-> <<>>, font_family |-> "", style_preset |-> "modern"],
              env |-> [logos |-> NoLogo,
                       brand |-> [INVESTYWISE_WHITE |-> "absent",
                                  INVESTYWISE_BLACK |-> "absent"],
                       fonts |-> [exists |-> {}, loads |-> {}]]]
    /\ picked = <<>>
    /\ made = NotMade

-----------------------------------------------------------------------------
(* The output folder and the clock.                                        *)
(* Time is counted in hours from 2024-01-01 00:00:00; disk maps the name   *)
(* of each file of config.output_folder to its modification time and the   *)
(* request whose image it holds.                                           *)

Gens == 1..MaxGen
Readers == 1..MaxReaders

Digits == <<"0", "1", "2", "3", "4", "5", "6", "7", "8", "9">>
TwoDigits(n) == <<Digits[(n \div 10) + 1], Digits[(n % 10) + 1]>>

\* datetime.strftime('%Y%m%d_%H%M%S') of the time t.
strftime(t) ==
    <<"2", "0", "2", "4", "0", "1">> \o TwoDigits(1 + (t \div 24))
        \o <<"_">> \o TwoDigits(t % 24) \o <<"0", "0", "0", "0">>

\* The values uuid.uuid4() returns in the model, as str(uuid) gives them: the
\* first two differ only in their last character.
UuidTail(c) ==
    <<"-", "7", "c", "0", "1", "-", "4", "b", "5", "e", "-", "9", "d", "2", "a", "-",
      "0", "f", "3", "6", "1", "8", "a", "4", "c", "e", "7">> \o <<c>>
UUIDs ==
    { <<"e", "6", "f", "5", "e", "c", "5", "8">> \o UuidTail("0"),
      <<"e", "6", "f", "5", "e", "c", "5", "8">> \o UuidTail("1"),
      <<"3", "b", "9", "a", "0", "0", "d", "4">> \o UuidTail("2") }

\* str(uuid.uuid4())[:8]
unique_id(uuid) == SubSeq(uuid, 1, 8)

\* f"{ticker}_{datetime.now().strftime('%Y%m%d_%H%M%S')}_{unique_id}.png"
FileName(ticker, t, uuid) ==
    ticker \o <<"_">> \o strftime(t) \o <<"_">> \o unique_id(uuid)
        \o <<".", "p", "n", "g">>

\* The tickers of the requests.
Tickers == { <<"t", "c", "s">> }

\* A name no thumbnail ever had.
NeverExisted == <<"n", "o", "n", "e", ".", "p", "n", "g">>

\* file_age > timedelta(hours=config.file_expiry_hours), in get_thumbnail, with
\* ">=" for ">".
ReadExpired_inclusive(file_age) == file_age >= file_expiry_hours

\* file_age > timedelta(hours=config.file_expiry_hours), in get_thumbnail.
ReadExpired(file_age) == file_age > file_expiry_hours

\* The same comparison in cleanup_expired_files, with ">=" for ">".
SweepExpired_inclusive(file_age) == file_age >= file_expiry_hours

\* file_age > timedelta(hours=config.file_expiry_hours), in cleanup_expired_files.
SweepExpired(file_age) == file_age > file_expiry_hours

\* d without the file f.
Unlink(d, f) == [n \in DOMAIN d \ {f} |-> d[n]]

\* d with the image of request g saved as f at time t.
Written(d, f, t, g) ==
    [n \in DOMAIN d \cup {f} |-> IF n = f THEN [mtime |-> t, owner |-> g] ELSE d[n]]

-----------------------------------------------------------------------------
(* POST /generate-thumbnail                                                *)

NoName == <<>>

GenIdle ==
    [pc |-> "idle", ticker |-> <<>>, uuid |-> <<>>, filename |-> NoName,
     status |-> 0, body |-> NoName, detail |-> "", expires_at |-> 0]

\* The requests and asset environments of the handler: a request whose
\* composition succeeds whatever the preset, and one whose logo is an SVG.
HandlerJobs ==
    { j \in [request : MethodRequests, env : AssetEnvs] :
        /\ j.request.prompt = BoardMeeting
        /\ j.request.font_family = ""
        /\ j.request.style_preset \in {"corporate", ""}
        /\ j.env.brand = [INVESTYWISE_WHITE |-> "absent", INVESTYWISE_BLACK |-> "absent"]
        /\ j.env.fonts = [exists |-> {}, loads |-> {"arial.ttf"}]
        /\ j.env.logos \in {NoLogo, [NoLogo EXCEPT ![".svg"] = "vector"]} }

\* style_preset=request.style_preset or "modern"
PresetOrModern(style_preset) == IF style_preset = "" THEN "modern" ELSE style_preset

\* The handler that answers a failed composition with the name it would have had.
FailureResponse_named(g, e) ==
    [gen[g] EXCEPT !.pc = "done", !.status = 500, !.detail = e,
                   !.body = FileName(gen[g].ticker, now, CHOOSE u \in UUIDs : TRUE)]

\* except Exception as e: raise HTTPException(status_code=500, detail=str(e))
FailureResponse(g, e) ==
    [gen[g] EXCEPT !.pc = "done", !.status = 500, !.detail = e]

\* The call of thumbnail_generator.generate_thumbnail, up to the drawn image.
\* The requests are numbered as they arrive.
GenCompose(g) ==
    /\ gen[g].pc = "idle"
    /\ \A h \in Gens : h < g => gen[h].pc # "idle"
    /\ \E ticker \in Tickers, j \in HandlerJobs, random_dark \in BOOLEAN :
        LET request == [j.request EXCEPT
                            !.style_preset = PresetOrModern(j.request.style_preset)]
            image == Compose(request, j.env, random_dark, 1)
            arrived == [gen EXCEPT ![g].ticker = Upper(ticker)]
        IN  IF image.status = "ok"
            THEN gen' = [arrived EXCEPT ![g].pc = "save"]
            ELSE gen' = [gen EXCEPT ![g] = FailureResponse(g, image.error)]
    /\ UNCHANGED <<now, disk, rd, sw, pending, periodic, textVars, composeVars>>

\* The uuids no request has drawn yet: uuid4 does not repeat.
FreshUuids == UUIDs \ {gen[h].uuid : h \in Gens}

\* The file name is made and the image saved; a failed save raises.
GenSave(g) ==
    /\ gen[g].pc = "save"
    /\ \E uuid \in FreshUuids, saved \in BOOLEAN :
        LET filename == FileName(gen[g].ticker, now, uuid)
        IN  IF saved
            THEN /\ disk' = Written(disk, filename, now, g)
                 /\ gen' = [gen EXCEPT ![g].pc = "respond", ![g].uuid = uuid,
                                       ![g].filename = filename]
            ELSE /\ disk' = disk
                 /\ gen' = [gen EXCEPT ![g] = FailureResponse(g, "cannot write file")]
    /\ UNCHANGED <<now, rd, sw, pending, periodic, textVars, composeVars>>

\* The cleanup is scheduled, the expiry computed and the response returned.
GenRespond(g) ==
    /\ gen[g].pc = "respond"
    /\ pending' = pending + 1
    /\ gen' = [gen EXCEPT ![g].pc = "done", ![g].status = 200,
                          ![g].body = gen[g].filename,
                          ![g].expires_at = now + file_expiry_hours]
    /\ UNCHANGED <<now, disk, rd, sw, periodic, textVars, composeVars>>

-----------------------------------------------------------------------------
(* GET /thumbnail/{filename}                                               *)

RdIdle == [pc |-> "idle", name |-> NoName, status |-> 0]

\* The names a client asks for: those of the files there are or were, and one
\* that never existed.
KnownNames == DOMAIN disk \cup {gen[g].filename : g \in Gens} \cup {NeverExisted}

\* The handler ends with this status code; 500 is an exception nothing handles.
Answer(r, code) == [rd EXCEPT ![r].pc = "done", ![r].status = code]

\* if not file_path.exists(): raise HTTPException(status_code=404)
\* The request goes to the first task that is free.
ReadExists(r, name) ==
    /\ rd[r].pc = "idle"
    /\ \A q \in Readers : q < r => rd[q].pc # "idle"
    /\ name # NoName
    /\ rd' = IF name \in DOMAIN disk
             THEN [rd EXCEPT ![r] = [pc |-> "stat", name |-> name, status |-> 0]]
             ELSE [rd EXCEPT ![r] = [pc |-> "done", name |-> name, status |-> 404]]
    /\ UNCHANGED <<now, disk, gen, sw, pending, periodic, textVars, composeVars>>

\* file_age = datetime.now() - datetime.fromtimestamp(file_path.stat().st_mtime);
\* stat() of a file that is gone raises FileNotFoundError, which nothing catches.
ReadStat(r) ==
    /\ rd[r].pc = "stat"
    /\ rd' = IF rd[r].name \notin DOMAIN disk
             THEN Answer(r, 500)
             ELSE IF ReadExpired(now - disk[rd[r].name].mtime)
             THEN [rd EXCEPT ![r].pc = "unlink"]
             ELSE [rd EXCEPT ![r].pc = "send"]
    /\ UNCHANGED <<now, disk, gen, sw, pending, periodic, textVars, composeVars>>

\* file_path.unlink(); raise HTTPException(status_code=410); unlink() of a file
\* that is gone raises FileNotFoundError, which nothing catches.
ReadUnlink(r) ==
    /\ rd[r].pc = "unlink"
    /\ IF rd[r].name \in DOMAIN disk
       THEN /\ disk' = Unlink(disk, rd[r].name)
            /\ rd' = Answer(r, 410)
       ELSE /\ disk' = disk
            /\ rd' = Answer(r, 500)
    /\ UNCHANGED <<now, gen, sw, pending, periodic, textVars, composeVars>>

\* return FileResponse(file_path): the file is opened when the response is
\* sent, after the handler has returned; a file gone by then is an error.
ReadSend(r) ==
    /\ rd[r].pc = "send"
    /\ rd' = IF rd[r].name \in DOMAIN disk THEN Answer(r, 200) ELSE Answer(r, 500)
    /\ UNCHANGED <<now, disk, gen, sw, pending, periodic, textVars, composeVars>>

\* The response has gone to the client; the task of the request ends.
ReadReturn(r) ==
    /\ rd[r].pc = "done"
    /\ rd' = [rd EXCEPT ![r] = RdIdle]
    /\ UNCHANGED <<now, disk, gen, sw, pending, periodic, textVars, composeVars>>

-----------------------------------------------------------------------------
(* cleanup_expired_files and periodic_cleanup                              *)

SwIdle == [pc |-> "idle", kind |-> "none", current_time |-> 0, files |-> <<>>, i |-> 0]

\* The orders in which glob("*.png") may list the files of the folder.
Listings(names) ==
    {l \in [1..Cardinality(names) -> names] : \A a, b \in DOMAIN l : a # b => l[a] # l[b]}

\* The loop goes on to the next file, or the sweep ends.
SweepOn(s) == IF s.i < Len(s.files) THEN [s EXCEPT !.pc = "stat", !.i = s.i + 1] ELSE SwIdle

\* A sweep starts: the periodic one (kind "periodic") or one scheduled by a
\* generation request (kind "post"). It reads the clock and lists the folder.
SweepStart(kind) ==
    /\ sw.pc = "idle"
    /\ \/ kind = "periodic" /\ periodic = "alive" /\ pending' = pending
       \/ kind = "post" /\ pending > 0 /\ pending' = pending - 1
    /\ \E files \in Listings(DOMAIN disk) :
        sw' = IF files = <<>> THEN SwIdle
              ELSE [pc |-> "stat", kind |-> kind, current_time |-> now,
                    files |-> files, i |-> 1]
    /\ UNCHANGED <<now, disk, gen, rd, periodic, textVars, composeVars>>

\* file_age = current_time - datetime.fromtimestamp(file_path.stat().st_mtime);
\* stat() of a file that is gone raises FileNotFoundError out of the sweep, and
\* out of periodic_cleanup's loop when the sweep is the periodic one.
SweepStat ==
    /\ sw.pc = "stat"
    /\ LET f == sw.files[sw.i]
       IN  IF f \notin DOMAIN disk
           THEN /\ sw' = SwIdle
                /\ periodic' = IF sw.kind = "periodic" THEN "dead" ELSE periodic
           ELSE /\ sw' = IF SweepExpired(sw.current_time - disk[f].mtime)
                         THEN [sw EXCEPT !.pc = "unlink"]
                         ELSE SweepOn(sw)
                /\ periodic' = periodic
    /\ UNCHANGED <<now, disk, gen, rd, pending, textVars, composeVars>>

\* try: file_path.unlink() except Exception: print(...)
SweepUnlink ==
    /\ sw.pc = "unlink"
    /\ disk' = IF sw.files[sw.i] \in DOMAIN disk THEN Unlink(disk, sw.files[sw.i]) ELSE disk
    /\ sw' = SweepOn(sw)
    /\ UNCHANGED <<now, gen, rd, pending, periodic, textVars, composeVars>>

-----------------------------------------------------------------------------
(* The service.                                                            *)

Tick ==
    /\ now < MaxTime
    /\ now' = now + 1
    /\ UNCHANGED <<disk, gen, rd, sw, pending, periodic, textVars, composeVars>>

SysIdle ==
    /\ now = 0
    /\ disk = <<>>
    /\ gen = [g \in Gens |-> GenIdle]
    /\ rd = [r \in Readers |-> RdIdle]
    /\ sw = SwIdle
    /\ pending = 0
    /\ periodic = "alive"

\* No handler and no sweep is under way.
Quiet ==
    /\ \A g \in Gens : gen[g].pc \in {"idle", "done"}
    /\ \A r \in Readers : rd[r].pc = "idle"
    /\ sw.pc = "idle"

Init == TextIdle /\ ComposeIdle /\ SysIdle

\* One worker: a handler or a sweep runs from its start to its end before the
\* event loop runs anything else.
Next ==
    \/ Quiet /\ Tick
    \/ \E g \in Gens : Quiet /\ GenCompose(g)
    \/ \E g \in Gens : GenSave(g)
    \/ \E g \in Gens : GenRespond(g)
    \/ \E r \in Readers : \E name \in KnownNames : Quiet /\ ReadExists(r, name)
    \/ \E r \in Readers : ReadStat(r)
    \/ \E r \in Readers : ReadUnlink(r)
    \/ \E r \in Readers : ReadSend(r)
    \/ \E r \in Readers : ReadReturn(r)
    \/ \E kind \in {"periodic", "post"} : Quiet /\ SweepStart(kind)
    \/ SweepStat
    \/ SweepUnlink

Spec == Init /\ [][Next]_vars

\* No generation request is under way.
GenQuiet == \A g \in Gens : gen[g].pc \in {"idle", "done"}

\* Downloads and sweeps that overlap: several workers over one output folder,
\* or one worker sending a FileResponse after the handler has returned. Their
\* file-system calls interleave; generation requests and the passing of time
\* are taken between them.
RaceNext ==
    \/ Quiet /\ Tick
    \/ \E g \in Gens : Quiet /\ GenCompose(g)
    \/ \E g \in Gens : GenSave(g)
    \/ \E g \in Gens : GenRespond(g)
    \/ \E r \in Readers : \E name \in KnownNames : GenQuiet /\ ReadExists(r, name)
    \/ \E r \in Readers : ReadStat(r)
    \/ \E r \in Readers : ReadUnlink(r)
    \/ \E r \in Readers : ReadSend(r)
    \/ \E r \in Readers : ReadReturn(r)
    \/ \E kind \in {"periodic", "post"} : GenQuiet /\ SweepStart(kind)
    \/ SweepStat
    \/ SweepUnlink

SpecRace == Init /\ [][RaceNext]_vars

\* The overlapping service with its scheduling: a handler that has started runs
\* on, a sweep that has started runs on, and the timer of periodic_cleanup
\* (line 521) starts a sweep again and again while the task is alive. Nothing
\* obliges a client to send a request.
SpecRaceFair ==
    /\ SpecRace
    /\ WF_vars(\E g \in Gens : GenSave(g))
    /\ WF_vars(\E g \in Gens : GenRespond(g))
    /\ WF_vars(\E r \in Readers : ReadStat(r))
    /\ WF_vars(\E r \in Readers : ReadUnlink(r))
    /\ WF_vars(\E r \in Readers : ReadSend(r))
    /\ WF_vars(\E r \in Readers : ReadReturn(r))
    /\ WF_vars(GenQuiet /\ SweepStart("periodic"))
    /\ WF_vars(SweepStat)
    /\ WF_vars(SweepUnlink)

\* One worker whose generation requests take time: the clock also advances
\* between the steps of generate_thumbnail, so that img.save (line 481) and the
\* datetime.now() of the handler (line 540) read different times.
SlowNext ==
    \/ (Quiet \/ ~GenQuiet) /\ Tick
    \/ \E g \in Gens : Quiet /\ GenCompose(g)
    \/ \E g \in Gens : GenSave(g)
    \/ \E g \in Gens : GenRespond(g)
    \/ \E r \in Readers : \E name \in KnownNames : Quiet /\ ReadExists(r, name)
    \/ \E r \in Readers : ReadStat(r)
    \/ \E r \in Readers : ReadUnlink(r)
    \/ \E r \in Readers : ReadSend(r)
    \/ \E r \in Readers : ReadReturn(r)
    \/ \E kind \in {"periodic", "post"} : Quiet /\ SweepStart(kind)
    \/ SweepStat
    \/ SweepUnlink

SpecSlow == Init /\ [][SlowNext]_vars

-----------------------------------------------------------------------------
(* A call of generate_thumbnail on its own.                                *)

ComposeInit ==
    /\ TextIdle
    /\ SysIdle
    /\ job \in [request : MethodRequests, env : AssetEnvs]
    /\ picked = <<>>
    /\ made = NotMade

CallGenerate ==
    /\ made = NotMade
    /\ \E random_dark \in BOOLEAN, random_index \in 1..4 :
        /\ picked' = <<random_dark, random_index>>
        /\ made' = Compose(job.request, job.env, random_dark, random_index)
    /\ UNCHANGED job
    /\ UNCHANGED <<textVars, sysVars>>

ComposeNext == CallGenerate

SpecCompose == ComposeInit /\ [][ComposeNext]_vars

-----------------------------------------------------------------------------
(* The text functions under call: the inputs and the two calls.            *)

\* The pieces the headlines given to clean_title are made of.
CleanFragments ==
    { <<" ">>, <<"\t">>, <<"a">>, <<"B">>, Intimation,
      <<"-", " ", "I", "n", "t", "i", "m">>, <<"a", "t", "i", "o", "n">>,
      <<"L", "i", "s", "t", "i", "n", "g">>,
      <<" ", "O", "b", "l", "i", "g", "a", "t", "i", "o", "n", "s">> }

\* The pieces the texts given to wrap_text are made of.
WrapFragments == { <<" ">>, <<"\t">>, <<"-">>, <<"a">>, <<"B">>, Delimiter }

RECURSIVE Texts(_, _)
Texts(fragments, n) ==
    IF n = 0
    THEN {<<>>}
    ELSE LET shorter == Texts(fragments, n - 1)
         IN  shorter \cup {s \o f : s \in shorter, f \in fragments}

Widths == {0, 2, 5, AmpleWidth}

TextInit ==
    /\ text \in Texts(CleanFragments, MaxCleanParts) \cup Texts(WrapFragments, MaxParts)
    /\ max_width = 0
    /\ fn = "none"
    /\ out = <<>>
    /\ ComposeIdle
    /\ SysIdle

CallCleanTitle ==
    /\ fn = "none"
    /\ fn' = "clean_title"
    /\ out' = clean_title(text)
    /\ UNCHANGED <<text, max_width>>
    /\ UNCHANGED <<composeVars, sysVars>>

CallWrapText ==
    /\ fn = "none"
    /\ \E width \in Widths :
        /\ max_width' = width
        /\ out' = wrap_text(text, width)
    /\ fn' = "wrap_text"
    /\ UNCHANGED text
    /\ UNCHANGED <<composeVars, sysVars>>

TextNext == CallCleanTitle \/ CallWrapText

SpecText == TextInit /\ [][TextNext]_vars

-----------------------------------------------------------------------------
(* Vocabulary of the properties of the text functions, stated on the       *)
(* characters of the strings and not with the helpers the functions use.   *)

\* t is s without its leading and trailing whitespace.
IsTrimOf(t, s) ==
    \E i \in 1..(Len(s) + 1), j \in 0..Len(s) :
        /\ t = SubSeq(s, i, j)
        /\ \A k \in 1..(i - 1) : IsSpace(s[k])
        /\ \A k \in (j + 1)..Len(s) : IsSpace(s[k])
        /\ t = <<>> \/ (~IsSpace(t[1]) /\ ~IsSpace(t[Len(t)]))

\* s read from position i on, leaving out every occurrence of pat met on the way.
RECURSIVE Without(_, _, _)
Without(s, pat, i) ==
    IF i > Len(s) THEN <<>>
    ELSE IF MatchAt(s, pat, i) THEN Without(s, pat, i + Len(pat))
    ELSE <<s[i]>> \o Without(s, pat, i + 1)

\* s with its leading and trailing whitespace dropped and every run of
\* whitespace between two words turned into one space.
Collapse(s) ==
    LET n == Len(s)
        keep(i) ==
            \/ ~IsSpace(s[i])
            \/ /\ i > 1
               /\ ~IsSpace(s[i - 1])
               /\ \E j \in (i + 1)..n : ~IsSpace(s[j])
        kept == SelectSeq([i \in 1..n |-> i], keep)
    IN  [k \in 1..Len(kept) |-> IF IsSpace(s[kept[k]]) THEN " " ELSE s[kept[k]]]

\* The words of s are separated by single spaces only.
SingleSpaced(s) ==
    \A i \in 1..Len(s) :
        ( /\ IsSpace(s[i])
          /\ \E j \in 1..(i - 1) : ~IsSpace(s[j])
          /\ \E j \in (i + 1)..Len(s) : ~IsSpace(s[j]) )
        => (s[i] = " " /\ ~IsSpace(s[i - 1]))

HasWord(s) == \E i \in 1..Len(s) : ~IsSpace(s[i])

\* The positions where s is cut at " - ": the occurrences of the delimiter from
\* left to right, one that overlaps a cut before it left out.
CutsOf(s) ==
    LET f[i \in 0..Len(s)] ==
            IF i = 0 THEN {}
            ELSE IF /\ MatchAt(s, Delimiter, i)
                    /\ (i - 1) \notin f[i - 1]
                    /\ (i - 2) \notin f[i - 1]
                 THEN f[i - 1] \cup {i}
                 ELSE f[i - 1]
    IN  f[Len(s)]

\* The segments of s between its cuts, in order.
SegmentsOf(s) ==
    LET C == CutsOf(s)
        k == Cardinality(C)
        nth(m) == CHOOSE c \in C : Cardinality({d \in C : d < c}) = m - 1
        first(m) == IF m = 1 THEN 1 ELSE nth(m - 1) + Len(Delimiter)
        last(m) == IF m = k + 1 THEN Len(s) ELSE nth(m) - 1
    IN  [m \in 1..(k + 1) |-> SubSeq(s, first(m), last(m))]

\* max_width is wide enough for the whole text.
AmpleFor(s, width) == width >= TextWidth(s)

-----------------------------------------------------------------------------
(* Claims about the text functions, checked under SpecText.                *)

\* C7 (as amended): clean_title removes every occurrence of "- Intimation" (from
\* left to right, in one pass) and trims the leading and trailing whitespace of
\* what is left; if that text contains "Listing Obligations", as it does
\* whenever the input does, the result is exactly "Important Update"; otherwise
\* the trimmed text is returned with no change of case, so an input with neither
\* marker is returned unchanged except for the trimmed whitespace.
C7_CleanTitleTrims ==
    fn = "clean_title" =>
        LET removed == Without(text, Intimation, 1)
        IN  /\ Contains(text, ListingObligations) => out = ImportantUpdate
            /\ Contains(removed, ListingObligations) => out = ImportantUpdate
            /\ ~Contains(removed, ListingObligations) => IsTrimOf(out, removed)
            /\ ( /\ ~Contains(text, Intimation)
                 /\ ~Contains(text, ListingObligations) ) => IsTrimOf(out, text)

\* C7 witness: a headline with the trailing annotation was cleaned to a text that
\* is neither the input nor the fixed replacement.
C7_Witness ==
    /\ fn = "clean_title"
    /\ Contains(text, Intimation)
    /\ HasWord(out)
    /\ out # ImportantUpdate
    /\ out # text

\* C7 as stated: "- Intimation" is removed, "Listing Obligations" gives
\* "Important Update", and every other input is returned unchanged.
C7_AsStated ==
    fn = "clean_title" =>
        /\ Contains(text, ListingObligations) => out = ImportantUpdate
        /\ ( /\ Contains(text, Intimation)
             /\ ~Contains(text, ListingObligations) )
                => out = Without(text, Intimation, 1)
        /\ ( /\ ~Contains(text, Intimation)
             /\ ~Contains(text, ListingObligations) ) => out = text

\* C8 (as amended): for a text without " - " and a max_width wide enough for the
\* whole text, wrap_text returns the words of the text joined by single spaces
\* as its only line, and no line when the text has no word; the line is the
\* trimmed input when the words of the input are separated by single spaces.
C8_OneLineOfWords ==
    (fn = "wrap_text" /\ ~Contains(text, Delimiter) /\ AmpleFor(text, max_width)) =>
        /\ out = IF HasWord(text) THEN <<Collapse(text)>> ELSE <<>>
        /\ (HasWord(text) /\ SingleSpaced(text)) =>
                (Len(out) = 1 /\ IsTrimOf(out[1], text))

\* C8 witness: a text of several words and no delimiter was wrapped into one line.
C8_Witness ==
    /\ fn = "wrap_text"
    /\ ~Contains(text, Delimiter)
    /\ AmpleFor(text, max_width)
    /\ Len(SplitWords(text)) >= 2
    /\ Len(out) = 1

\* C8 as stated: exactly one line, equal to the trimmed input (asked here only
\* of a text that has a word).
C8_AsStated ==
    ( /\ fn = "wrap_text"
      /\ ~Contains(text, Delimiter)
      /\ AmpleFor(text, max_width)
      /\ HasWord(text) ) =>
        (Len(out) = 1 /\ IsTrimOf(out[1], text))

\* C9: in manual-break mode with ample width, wrap_text returns the trimmed,
\* non-empty segments of the text split on " - ", in order, one line for each,
\* and no returned line contains the delimiter.
C9_ManualBreaks ==
    (fn = "wrap_text" /\ Contains(text, Delimiter) /\ AmpleFor(text, max_width)) =>
        LET segments == SelectSeq(SegmentsOf(text), HasWord)
        IN  /\ Len(out) = Len(segments)
            /\ \A m \in 1..Len(out) :
                /\ IsTrimOf(out[m], segments[m])
                /\ out[m] # <<>>
                /\ ~Contains(out[m], Delimiter)

\* C9 witness: "a - B - a" with ample width gave the three lines "a", "B", "a".
C9_Witness ==
    /\ fn = "wrap_text"
    /\ text = <<"a", " ", "-", " ", "B", " ", "-", " ", "a">>
    /\ AmpleFor(text, max_width)
    /\ out = << <<"a">>, <<"B">>, <<"a">> >>

\* The lines joined by single spaces.
RECURSIVE JoinLines(_)
JoinLines(lines) ==
    IF lines = <<>> THEN <<>>
    ELSE IF Len(lines) = 1 THEN lines[1]
    ELSE lines[1] \o <<" ">> \o JoinLines(Tail(lines))

\* s without its leading and trailing whitespace.
TrimOf(s) ==
    CHOOSE t \in {SubSeq(s, i, j) : i \in 1..(Len(s) + 1), j \in 0..Len(s)} : IsTrimOf(t, s)

\* The lines are the words of s, in order and whole: each line is a non-empty
\* run of words joined by single spaces, the lines joined give the words of s
\* joined, and a line of more than one word is no wider than width.
WordLines(lines, s, width) ==
    /\ \A m \in 1..Len(lines) :
        /\ lines[m] # <<>>
        /\ lines[m] = Collapse(lines[m])
        /\ (\E i \in 1..Len(lines[m]) : lines[m][i] = " ") => TextWidth(lines[m]) <= width
    /\ JoinLines(lines) = Collapse(s)

\* The lines are those of the segments, in order: a segment that fits is one
\* line, trimmed, and a segment that is too wide is wrapped word by word.
RECURSIVE SegmentLines(_, _, _)
SegmentLines(lines, segments, width) ==
    IF segments = <<>>
    THEN lines = <<>>
    ELSE LET segment == TrimOf(Head(segments))
         IN  IF TextWidth(segment) <= width
             THEN /\ lines # <<>>
                  /\ lines[1] = segment
                  /\ SegmentLines(Tail(lines), Tail(segments), width)
             ELSE \E n \in 1..Len(lines) :
                  /\ WordLines(SubSeq(lines, 1, n), segment, width)
                  /\ SegmentLines(SubSeq(lines, n + 1, Len(lines)), Tail(segments), width)

\* C11: the lines of the word-by-word wrap (a text without " - ", and a segment
\* of a text with " - " that is wider than max_width) are non-empty runs of
\* whole words of the input joined by single spaces, in input order, no word
\* dropped or repeated; a line of more than one word is no wider than
\* max_width, so a word wider than max_width is alone on its line, whole.
C11_GreedyWrap ==
    fn = "wrap_text" =>
        IF Contains(text, Delimiter)
        THEN SegmentLines(out, SelectSeq(SegmentsOf(text), HasWord), max_width)
        ELSE WordLines(out, text, max_width)

\* C11 witness: "aB a" with max_width 2 gave the word "aB", wider than
\* max_width, alone and whole on the first line, and "a" on the second.
C11_Witness ==
    /\ fn = "wrap_text"
    /\ text = <<"a", "B", " ", "a">>
    /\ max_width = 2
    /\ TextWidth(<<"a", "B">>) > max_width
    /\ out = << <<"a", "B">>, <<"a">> >>

-----------------------------------------------------------------------------
(* Claims about ThumbnailGenerator.generate_thumbnail, checked under       *)
(* SpecCompose.                                                            *)

\* The logo file the call uses: the first that exists, of the names it tries.
LogoUsed ==
    LET found == {k \in 1..Len(LogoNames) : job.env.logos[LogoNames[k]] # "absent"}
    IN  IF found = {} THEN "absent" ELSE job.env.logos[LogoNames[Min(found)]]

\* Apart from the degraded conditions everything is in order: the logo, when
\* there is one, is of a kind the logo lookup accepts (a raster image or an
\* SVG) and uncorrupted, the brand logos that exist are readable, and a bundled
\* default font of each variant exists and loads.
OnlyDegraded ==
    /\ LogoUsed # "corrupt"
    /\ \A b \in DOMAIN job.env.brand : job.env.brand[b] # "corrupt"
    /\ \A variant \in DOMAIN DEFAULT_FONTS :
        \E k \in 1..Len(DEFAULT_FONTS[variant]) :
            /\ DEFAULT_FONTS[variant][k] \in job.env.fonts.exists
            /\ DEFAULT_FONTS[variant][k] \in job.env.fonts.loads

\* C6 as stated: whatever the combination of a missing or unloadable custom
\* font, a missing logo, a missing brand watermark and a failing colour
\* extraction, generate_thumbnail completes.
C6_AsStated == (made # NotMade /\ OnlyDegraded) => made.status = "ok"

\* C10: an unrecognized style preset gives what "modern" gives for the same
\* random choices (typography, layout, colour pair, gradient style and all the
\* rest), and no lookup in GRADIENTS, TYPOGRAPHY or LAYOUTS fails for any preset.
C10_UnknownPresetIsModern ==
    made # NotMade =>
        /\ made.status = "error" => made.error # "KeyError"
        /\ job.request.style_preset \notin {"modern", "corporate", "vibrant"} =>
            /\ made = Compose([job.request EXCEPT !.style_preset = "modern"],
                              job.env, picked[1], picked[2])
            /\ made.status = "ok" =>
                /\ made.typography = TYPOGRAPHY.modern
                /\ made.layout = LAYOUTS.modern
                /\ made.colors =
                     GRADIENTS.modern[IF made.use_dark_bg THEN "dark" ELSE "light"][picked[2]]
                /\ made.gradient_style = "linear"

\* C10 witness: a thumbnail was composed for the preset "retro".
C10_Witness ==
    /\ made # NotMade
    /\ made.status = "ok"
    /\ job.request.style_preset = "retro"
    /\ made.style_preset = "modern"

-----------------------------------------------------------------------------
(* Claims about the service. One worker, each handler and each sweep run   *)
(* from start to end: Spec. Downloads and sweeps that overlap: SpecRace.   *)

\* The step in which the handler of download r ends.
Answers(r) == rd[r].pc # "done" /\ rd'[r].pc = "done"

\* C1: a download of a file that exists and is no older than the retention
\* window answers 200 and leaves the folder as it is; of a file older than the
\* window, 410, and the file is no longer in the folder; of a name that is not
\* in the folder, 404.
C1_ReadByAge ==
    [][\A r \in Readers : Answers(r) =>
         LET name == rd'[r].name
         IN  IF name \notin DOMAIN disk
             THEN rd'[r].status = 404 /\ disk' = disk
             ELSE IF now - disk[name].mtime <= file_expiry_hours
             THEN rd'[r].status = 200 /\ disk' = disk
             ELSE rd'[r].status = 410 /\ disk' = Unlink(disk, name)]_vars

\* C1 witness: a generated thumbnail was asked for past the window; the answer
\* is 410 and the file is gone.
C1_Witness ==
    \E r \in Readers, g \in Gens :
        /\ rd[r].pc = "done"
        /\ rd[r].status = 410
        /\ gen[g].status = 200
        /\ rd[r].name = gen[g].body
        /\ rd[r].name \notin DOMAIN disk
        /\ now > gen[g].expires_at

DecDigits == {Digits[k] : k \in DOMAIN Digits}

HexDigits == DecDigits \cup {"a", "b", "c", "d", "e", "f"}

\* {TICKER}_{8 digits}_{6 digits}_{8 hex chars}.png
IsThumbnailName(name, ticker) ==
    LET n == Len(ticker)
    IN  /\ Len(name) = n + 29
        /\ SubSeq(name, 1, n) = ticker
        /\ name[n + 1] = "_"
        /\ \A k \in (n + 2)..(n + 9) : name[k] \in DecDigits
        /\ name[n + 10] = "_"
        /\ \A k \in (n + 11)..(n + 16) : name[k] \in DecDigits
        /\ name[n + 17] = "_"
        /\ \A k \in (n + 18)..(n + 25) : name[k] \in HexDigits
        /\ SubSeq(name, n + 26, n + 29) = <<".", "p", "n", "g">>

\* The requests that were answered with a file name.
Named == {g \in Gens : gen[g].pc = "done" /\ gen[g].status = 200}

\* C2 as stated: every file name returned has the form
\* {TICKER}_{8 digits}_{6 digits}_{8 hex chars}.png, and no two requests are
\* answered with the same file name.
C2_AsStated ==
    /\ \A g \in Named : IsThumbnailName(gen[g].body, gen[g].ticker)
    /\ \A g, h \in Named : g # h => gen[g].body # gen[h].body

\* A step of a sweep that is under way.
Sweeps == sw.pc # "idle"

\* C3: a sweep deletes a file only if the file is older, at the start of the
\* sweep, than the retention window; it leaves every other file as it is; and
\* when it ends no file older than the window is left.
C3_SweepByAge ==
    [][Sweeps =>
         /\ DOMAIN disk' \subseteq DOMAIN disk
         /\ \A f \in DOMAIN disk :
              IF f \in DOMAIN disk'
              THEN disk'[f] = disk[f]
              ELSE sw.current_time - disk[f].mtime > file_expiry_hours
         /\ sw'.pc = "idle" =>
              \A f \in DOMAIN disk' :
                  sw.current_time - disk'[f].mtime <= file_expiry_hours]_vars

\* C3 witness: a sweep has deleted the first file of its listing and found the
\* second one young enough to stay.
C3_Witness ==
    /\ sw.pc # "idle"
    /\ Len(sw.files) = 2
    /\ sw.i = 2
    /\ sw.files[1] \notin DOMAIN disk
    /\ sw.files[2] \in DOMAIN disk
    /\ sw.current_time - disk[sw.files[2]].mtime <= file_expiry_hours

\* C4 as stated: whatever deletions overlap a download, it ends with the file
\* (200), with 410 or with 404, never with an error nothing handles.
C4_AsStated == \A r \in Readers : rd[r].pc = "done" => rd[r].status \in {200, 404, 410}

\* The step in which generation request g is answered.
Responds(g) == gen[g].pc # "done" /\ gen'[g].pc = "done"

\* C5: a generation request is answered once, either with 200 and the name of
\* a file that is in the folder and holds the image of this request, or with
\* 500 and the text of the error and no file name; after the answer nothing
\* more is done for the request.
C5_AllOrNothing ==
    [][\A g \in Gens :
         /\ Responds(g) =>
              \/ /\ gen'[g].status = 200
                 /\ gen'[g].body # NoName
                 /\ gen'[g].body \in DOMAIN disk'
                 /\ disk'[gen'[g].body].owner = g
              \/ /\ gen'[g].status = 500
                 /\ gen'[g].body = NoName
                 /\ gen'[g].detail # ""
                 /\ gen[g].pc = "idle" => disk' = disk
         /\ gen[g].pc = "done" => gen'[g] = gen[g]]_vars

\* C5 witness: one request failed on its logo and was answered 500 without a
\* file name; another was answered 200 with the name of its file.
C5_Witness ==
    \E g, h \in Gens :
        /\ gen[g].pc = "done"
        /\ gen[g].status = 500
        /\ gen[g].detail = "cannot identify image file (logo)"
        /\ gen[g].body = NoName
        /\ gen[h].pc = "done"
        /\ gen[h].status = 200
        /\ gen[h].body \in DOMAIN disk

\* C12 as stated: a thumbnail whose name was returned with expires_at is not
\* removed from the folder, by a download that answers 410 or by a sweep, at a
\* time earlier than that expires_at.
C12_AsStated ==
    [][\A g \in Named :
         (gen[g].body \in DOMAIN disk /\ gen[g].body \notin DOMAIN disk') =>
             now >= gen[g].expires_at]_vars

\* No file of the folder is older than the retention window.
NoExpired == \A f \in DOMAIN disk : now - disk[f].mtime <= file_expiry_hours

\* C13 as stated: the periodic sweep keeps running whatever happens during a
\* scan, so no file older than the retention window stays in the folder for
\* ever: again and again the folder holds no such file.
C13_AsStated == []<>NoExpired

====
